---- MODULE Spec2Model ----
(***************************************************************************)
(* A model of SkipList.py: the SkipList class (header sentinel, per-level  *)
(* forward links, random node levels) with its operations search, insert,  *)
(* delete, to_list and size, and the EmployeeDatabase class built on two   *)
(* such lists.                                                             *)
(*                                                                         *)
(* Objects live in a heap: a function from node identities to records      *)
(* [key, value, forward], where forward is the node's list of forward      *)
(* references indexed 0..len-1 as in Python.  A node that nothing refers   *)
(* to any more is reclaimed, as CPython does.                              *)
(***************************************************************************)
EXTENDS Integers, Sequences, FiniteSets, TLC

(* ------------------------------ bounds --------------------------------- *)
\* keys passed to the operations are 1..MaxKey
MaxKey == 3
\* max_level arguments of the constructor go up to MaxLevel
MaxLevel == 1
\* node levels drawn inside the two indexes of an EmployeeDatabase go up to
\* MaxIndexLevel (random_level() itself can return up to DefaultMaxLevel)
MaxIndexLevel == 2

(* ----------------------------- constants ------------------------------- *)
\* Python's None (as a value, and as the result of search on a miss)
None == 0
\* float('-inf'), the header's key: below every key of Keys
NegInf == -1
\* "no key argument" in the record of the last call
NoKey == 0
\* probabilities and random.random() draws are written in hundredths
DefaultProbability == 50
\* the default max_level of the constructor
DefaultMaxLevel == 16

Keys == 1..MaxKey
\* values passed to insert: the code only stores and returns them, so two
\* distinct payloads tell an overwritten value from a kept one
Vals == {1, 2}
\* outcomes of random.random(), in hundredths: one below and one above 0.5
RandomDraws == {25, 75}
\* constructor arguments inside the documented domain
ValidMaxLevels == 0..MaxLevel
ValidProbabilities == {DefaultProbability}
\* constructor arguments the constructor accepts as well
AnyMaxLevels == (-1)..MaxLevel
AnyProbabilities == {0, DefaultProbability, 100}
\* the max_level of the lists on which delete's unlink loop is followed: one
\* above MaxLevel, so that a list has levels above a level where the loop stops
TallMaxLevel == MaxLevel + 1
\* the value inserted into those lists: the loop never reads a value
TallVals == {1}
\* arguments of the EmployeeDatabase calls: two of each, so that two
\* employees can share a salary and an emp_id can be added again
EmpIds == {1, 2}
Salaries == {1, 2}
Names == {"Ann"}
Departments == {"Eng"}
\* node levels drawn inside the two indexes: those of 0..DefaultMaxLevel
\* that are within the bound
IndexLevels == {l \in 0..DefaultMaxLevel : l <= MaxIndexLevel}

(* --------------------------- node identities --------------------------- *)
\* the header object
Header == <<0, 0>>
\* a None reference in a forward list or in the update table
Null == <<>>
\* marker: the evaluation raised instead of yielding a node
Raised == <<-1, -1>>

NoFault == "none"
IndexError == "IndexError"
AttributeError == "AttributeError"

VARIABLES heap, level, max_level, probability, ref, last, db, dblast

vars == <<heap, level, max_level, probability, ref, last, db, dblast>>

(* ------------------------------- objects ------------------------------- *)
\* SkipListNode(key, value, level): forward = [None] * (level + 1)
SkipListNode(key, value, lvl) ==
    [key |-> key, value |-> value, forward |-> [i \in 0..lvl |-> Null]]

\* the identity of a newly allocated node: any identity not in use
NewId(h, key) ==
    <<key, CHOOSE s \in 0..Cardinality(DOMAIN h) :
              /\ <<key, s>> \notin DOMAIN h
              /\ \A t \in 0..(s - 1) : <<key, t>> \in DOMAIN h>>

\* is n.forward[i] inside the list
HasFwd(h, n, i) == i \in DOMAIN h[n].forward

Fwd(h, n, i) == h[n].forward[i]

\* the objects reachable from the objects of S through forward references
RECURSIVE ReachFrom(_, _)
ReachFrom(h, S) ==
    LET T == S \cup (UNION {{h[n].forward[i] : i \in DOMAIN h[n].forward} :
                              n \in S} \ {Null})
    IN  IF T = S THEN S ELSE ReachFrom(h, T)

\* reference counting: only what the header still reaches stays alive
Collect(h) == [n \in ReachFrom(h, {Header}) |-> h[n]]

(* ---------------------------- random_level ----------------------------- *)
\* the loop with level <= self.max_level as its bound
RECURSIVE random_level_loop_le(_, _, _, _)
random_level_loop_le(lvl, draws, p, ml) ==
    IF lvl <= ml /\ Head(draws) < p
    THEN random_level_loop_le(lvl + 1, Tail(draws), p, ml)
    ELSE lvl

\* the while loop of random_level: each test consumes one random.random()
RECURSIVE random_level_loop(_, _, _, _)
random_level_loop(lvl, draws, p, ml) ==
    IF Head(draws) < p /\ lvl < ml
    THEN random_level_loop(lvl + 1, Tail(draws), p, ml)
    ELSE lvl

random_level(p, ml, draws) == random_level_loop(0, draws, p, ml)

\* the loop tests at most max_level + 1 times (once when max_level < 0)
DrawCount(ml) == IF ml < 0 THEN 1 ELSE ml + 1

\* the draws one call may see; a test that fails ends the loop, so the draws
\* after it are never read and are taken to fail as well
DrawSeqs(ml) ==
    {d \in [1..DrawCount(ml) -> RandomDraws] :
        \A i \in 1..(DrawCount(ml) - 1) : d[i] <= d[i + 1]}

(* ------------------------------ traversal ------------------------------ *)
\* Advance without the test current.forward[i] is not None
RECURSIVE Advance_nonone(_, _, _, _)
Advance_nonone(h, cur, i, key) ==
    IF ~HasFwd(h, cur, i) \/ Fwd(h, cur, i) = Null THEN Raised
    ELSE IF h[Fwd(h, cur, i)].key < key
         THEN Advance_nonone(h, Fwd(h, cur, i), i, key)
         ELSE cur

\* Advance with <= in place of <
RECURSIVE Advance_le(_, _, _, _)
Advance_le(h, cur, i, key) ==
    IF ~HasFwd(h, cur, i) THEN Raised
    ELSE IF Fwd(h, cur, i) # Null /\ h[Fwd(h, cur, i)].key <= key
         THEN Advance_le(h, Fwd(h, cur, i), i, key)
         ELSE cur

\* while current.forward[i] is not None and current.forward[i].key < key:
\*     current = current.forward[i]
RECURSIVE Advance(_, _, _, _)
Advance(h, cur, i, key) ==
    IF ~HasFwd(h, cur, i) THEN Raised
    ELSE IF Fwd(h, cur, i) # Null /\ h[Fwd(h, cur, i)].key < key
         THEN Advance(h, Fwd(h, cur, i), i, key)
         ELSE cur

\* search's descent: for i in range(self.level, -1, -1)
RECURSIVE SearchDescend(_, _, _, _)
SearchDescend(h, cur, i, key) ==
    IF i < 0 THEN cur
    ELSE LET c == Advance(h, cur, i, key)
         IN  IF c = Raised THEN Raised ELSE SearchDescend(h, c, i - 1, key)

\* FindUpdate that records update[i] = self.header at every level
RECURSIVE FindUpdate_header(_, _, _, _, _)
FindUpdate_header(h, cur, i, key, update) ==
    IF i < 0 THEN [raised |-> NoFault, current |-> cur, update |-> update]
    ELSE LET c == Advance(h, cur, i, key)
         IN  IF c = Raised \/ i \notin DOMAIN update
             THEN [raised |-> IndexError, current |-> cur, update |-> update]
             ELSE FindUpdate_header(h, c, i - 1, key,
                                    [update EXCEPT ![i] = Header])

\* insert's and delete's descent, which also records update[i] = current
RECURSIVE FindUpdate(_, _, _, _, _)
FindUpdate(h, cur, i, key, update) ==
    IF i < 0 THEN [raised |-> NoFault, current |-> cur, update |-> update]
    ELSE LET c == Advance(h, cur, i, key)
         IN  IF c = Raised \/ i \notin DOMAIN update
             THEN [raised |-> IndexError, current |-> cur, update |-> update]
             ELSE FindUpdate(h, c, i - 1, key, [update EXCEPT ![i] = c])

\* update = [None] * (self.max_level + 1)
NewUpdate(ml) == [i \in 0..ml |-> Null]

(* -------------------------------- search ------------------------------- *)
\* search without the step current = current.forward[0]
search_nostep(h, lvl, key) ==
    LET cur == SearchDescend(h, Header, lvl, key)
    IN  IF cur = Raised \/ ~HasFwd(h, cur, 0)
        THEN [raised |-> IndexError, ret |-> None]
        ELSE IF cur # Null /\ h[cur].key = key
             THEN [raised |-> NoFault, ret |-> h[cur].value]
             ELSE [raised |-> NoFault, ret |-> None]

search(h, lvl, key) ==
    LET cur == SearchDescend(h, Header, lvl, key)
    IN  IF cur = Raised \/ ~HasFwd(h, cur, 0)
        THEN [raised |-> IndexError, ret |-> None]
        ELSE LET c == Fwd(h, cur, 0)
             IN  IF c # Null /\ h[c].key = key
                 THEN [raised |-> NoFault, ret |-> h[c].value]
                 ELSE [raised |-> NoFault, ret |-> None]

(* -------------------------------- insert ------------------------------- *)
\* ExtendUpdate with range(self.level + 1, new_level)
ExtendUpdate_short(update, lvl, new_level) ==
    [i \in DOMAIN update |->
        IF lvl < i /\ i < new_level THEN Header ELSE update[i]]

\* for i in range(self.level + 1, new_level + 1): update[i] = self.header
ExtendUpdate(update, lvl, new_level) ==
    [i \in DOMAIN update |->
        IF lvl < i /\ i <= new_level THEN Header ELSE update[i]]

\* Splice with range(new_level) in place of range(new_level + 1)
RECURSIVE Splice_short(_, _, _, _, _)
Splice_short(h, update, new, i, new_level) ==
    IF i >= new_level THEN [raised |-> NoFault, heap |-> h]
    ELSE IF i \notin DOMAIN update THEN [raised |-> IndexError, heap |-> h]
    ELSE IF update[i] = Null THEN [raised |-> AttributeError, heap |-> h]
    ELSE IF ~HasFwd(h, update[i], i) THEN [raised |-> IndexError, heap |-> h]
    ELSE LET h1 == [h EXCEPT ![new].forward[i] = h[update[i]].forward[i]]
             h2 == [h1 EXCEPT ![update[i]].forward[i] = new]
         IN  Splice_short(h2, update, new, i + 1, new_level)

\* Splice without new_node.forward[i] = update[i].forward[i]
RECURSIVE Splice_nonext(_, _, _, _, _)
Splice_nonext(h, update, new, i, new_level) ==
    IF i > new_level THEN [raised |-> NoFault, heap |-> h]
    ELSE IF i \notin DOMAIN update THEN [raised |-> IndexError, heap |-> h]
    ELSE IF update[i] = Null THEN [raised |-> AttributeError, heap |-> h]
    ELSE IF ~HasFwd(h, update[i], i) THEN [raised |-> IndexError, heap |-> h]
    ELSE Splice_nonext([h EXCEPT ![update[i]].forward[i] = new],
                       update, new, i + 1, new_level)

\* for i in range(new_level + 1):
\*     new_node.forward[i] = update[i].forward[i]
\*     update[i].forward[i] = new_node
RECURSIVE Splice(_, _, _, _, _)
Splice(h, update, new, i, new_level) ==
    IF i > new_level THEN [raised |-> NoFault, heap |-> h]
    ELSE IF i \notin DOMAIN update THEN [raised |-> IndexError, heap |-> h]
    ELSE IF update[i] = Null THEN [raised |-> AttributeError, heap |-> h]
    ELSE IF ~HasFwd(h, update[i], i) THEN [raised |-> IndexError, heap |-> h]
    ELSE LET h1 == [h EXCEPT ![new].forward[i] = h[update[i]].forward[i]]
             h2 == [h1 EXCEPT ![update[i]].forward[i] = new]
         IN  Splice(h2, update, new, i + 1, new_level)

\* Overwrite that puts a new node object in the place of the old one
Overwrite_reset(h, current, value) ==
    [h EXCEPT ![current] =
        SkipListNode(h[current].key, value,
                     Cardinality(DOMAIN h[current].forward) - 1)]

\* Overwrite that leaves the value as it was
Overwrite_keep(h, current, value) == h

\* current.value = value
Overwrite(h, current, value) == [h EXCEPT ![current].value = value]

insert(h, lvl, ml, p, key, value, draws) ==
    LET f == FindUpdate(h, Header, lvl, key, NewUpdate(ml))
    IN  IF f.raised # NoFault \/ ~HasFwd(h, f.current, 0)
        THEN [raised |-> IndexError, heap |-> h, level |-> lvl,
              path |-> "raise", prev |-> None, drawn |-> -1]
        ELSE
        LET current == Fwd(h, f.current, 0)
        IN  IF current # Null /\ h[current].key = key
            THEN [raised |-> NoFault,
                  heap |-> Overwrite(h, current, value),
                  level |-> lvl, path |-> "overwrite",
                  prev |-> h[current].value, drawn |-> -1]
            ELSE
            LET new_level == random_level(p, ml, draws)
                grow == new_level > lvl
                update == IF grow THEN ExtendUpdate(f.update, lvl, new_level)
                          ELSE f.update
                lvl2 == IF grow THEN new_level ELSE lvl
                new_node == NewId(h, key)
                h1 == [n \in DOMAIN h \cup {new_node} |->
                         IF n = new_node
                         THEN SkipListNode(key, value, new_level)
                         ELSE h[n]]
                s == Splice(h1, update, new_node, 0, new_level)
            IN  [raised |-> s.raised, heap |-> s.heap, level |-> lvl2,
                 path |-> IF grow THEN "grow" ELSE "splice",
                 prev |-> None, drawn |-> new_level]

(* -------------------------------- delete ------------------------------- *)
\* the levels the unlink loop visits are reported as pairs <<i, redirected>>
Visit(i, redirected, r) == [r EXCEPT !.visited = <<<<i, redirected>>>> \o @]

\* Unlink that stops where the link does point at current
RECURSIVE Unlink_eq(_, _, _, _, _)
Unlink_eq(h, update, current, i, lvl) ==
    IF i > lvl THEN [raised |-> NoFault, heap |-> h, visited |-> <<>>]
    ELSE IF i \notin DOMAIN update \/ ~HasFwd(h, update[i], i)
         THEN [raised |-> IndexError, heap |-> h, visited |-> <<>>]
    ELSE IF Fwd(h, update[i], i) = current
         THEN [raised |-> NoFault, heap |-> h, visited |-> <<<<i, FALSE>>>>]
    ELSE IF ~HasFwd(h, current, i)
         THEN [raised |-> IndexError, heap |-> h, visited |-> <<>>]
    ELSE Visit(i, TRUE,
           Unlink_eq([h EXCEPT ![update[i]].forward[i] = h[current].forward[i]],
                     update, current, i + 1, lvl))

\* Unlink that handles level 0 only
Unlink_level0(h, update, current, i, lvl) ==
    IF i \notin DOMAIN update \/ ~HasFwd(h, update[i], i)
    THEN [raised |-> IndexError, heap |-> h, visited |-> <<>>]
    ELSE [raised |-> NoFault,
          heap |-> [h EXCEPT ![update[i]].forward[i] = h[current].forward[i]],
          visited |-> <<<<i, TRUE>>>>]

\* Unlink that sets update[i].forward[i] = None
RECURSIVE Unlink_cut(_, _, _, _, _)
Unlink_cut(h, update, current, i, lvl) ==
    IF i > lvl THEN [raised |-> NoFault, heap |-> h, visited |-> <<>>]
    ELSE IF i \notin DOMAIN update \/ ~HasFwd(h, update[i], i)
         THEN [raised |-> IndexError, heap |-> h, visited |-> <<>>]
    ELSE IF Fwd(h, update[i], i) # current
         THEN [raised |-> NoFault, heap |-> h, visited |-> <<<<i, FALSE>>>>]
    ELSE Visit(i, TRUE,
           Unlink_cut([h EXCEPT ![update[i]].forward[i] = Null],
                      update, current, i + 1, lvl))

\* the loop as for i in range(self.level, -1, -1), with the same break
RECURSIVE Unlink_down(_, _, _, _)
Unlink_down(h, update, current, i) ==
    IF i < 0 THEN [raised |-> NoFault, heap |-> h, visited |-> <<>>]
    ELSE IF i \notin DOMAIN update \/ ~HasFwd(h, update[i], i)
         THEN [raised |-> IndexError, heap |-> h, visited |-> <<>>]
    ELSE IF Fwd(h, update[i], i) # current
         THEN [raised |-> NoFault, heap |-> h, visited |-> <<<<i, FALSE>>>>]
    ELSE IF ~HasFwd(h, current, i)
         THEN [raised |-> IndexError, heap |-> h, visited |-> <<>>]
    ELSE Visit(i, TRUE,
           Unlink_down([h EXCEPT ![update[i]].forward[i] = h[current].forward[i]],
                       update, current, i - 1))

\* Unlink that runs from self.level down to 0
Unlink_desc(h, update, current, i, lvl) == Unlink_down(h, update, current, lvl)

\* the loop with continue in place of break: it goes on to every level
RECURSIVE Unlink_nobreak(_, _, _, _, _)
Unlink_nobreak(h, update, current, i, lvl) ==
    IF i > lvl THEN [raised |-> NoFault, heap |-> h, visited |-> <<>>]
    ELSE IF i \notin DOMAIN update \/ ~HasFwd(h, update[i], i)
         THEN [raised |-> IndexError, heap |-> h, visited |-> <<>>]
    ELSE IF Fwd(h, update[i], i) # current
         THEN Visit(i, FALSE, Unlink_nobreak(h, update, current, i + 1, lvl))
    ELSE IF ~HasFwd(h, current, i)
         THEN [raised |-> IndexError, heap |-> h, visited |-> <<>>]
    ELSE Visit(i, TRUE,
           Unlink_nobreak([h EXCEPT ![update[i]].forward[i] = h[current].forward[i]],
                          update, current, i + 1, lvl))

\* for i in range(self.level + 1):
\*     if update[i].forward[i] != current: break
\*     update[i].forward[i] = current.forward[i]
RECURSIVE Unlink(_, _, _, _, _)
Unlink(h, update, current, i, lvl) ==
    IF i > lvl THEN [raised |-> NoFault, heap |-> h, visited |-> <<>>]
    ELSE IF i \notin DOMAIN update \/ ~HasFwd(h, update[i], i)
         THEN [raised |-> IndexError, heap |-> h, visited |-> <<>>]
    ELSE IF Fwd(h, update[i], i) # current
         THEN [raised |-> NoFault, heap |-> h, visited |-> <<<<i, FALSE>>>>]
    ELSE IF ~HasFwd(h, current, i)
         THEN [raised |-> IndexError, heap |-> h, visited |-> <<>>]
    ELSE Visit(i, TRUE,
           Unlink([h EXCEPT ![update[i]].forward[i] = h[current].forward[i]],
                  update, current, i + 1, lvl))

\* Shrink without the test of header.forward[level]
Shrink_all(h, lvl) == 0

\* Shrink that never lowers the level
Shrink_none(h, lvl) == lvl

\* while self.level > 0 and self.header.forward[self.level] is None:
\*     self.level -= 1
RECURSIVE Shrink(_, _)
Shrink(h, lvl) ==
    IF lvl > 0 /\ Fwd(h, Header, lvl) = Null THEN Shrink(h, lvl - 1) ELSE lvl

\* delete without the test current.key == key
delete_anykey(h, lvl, ml, key) ==
    LET f == FindUpdate(h, Header, lvl, key, NewUpdate(ml))
    IN  IF f.raised # NoFault \/ ~HasFwd(h, f.current, 0)
        THEN [raised |-> IndexError, heap |-> h, level |-> lvl,
              ret |-> FALSE, path |-> "raise", visited |-> <<>>]
        ELSE
        LET current == Fwd(h, f.current, 0)
        IN  IF current # Null
            THEN LET u == Unlink(h, f.update, current, 0, lvl)
                 IN  [raised |-> u.raised, heap |-> u.heap,
                      level |-> Shrink(u.heap, lvl), ret |-> TRUE,
                      path |-> "unlink", visited |-> u.visited]
            ELSE [raised |-> NoFault, heap |-> h, level |-> lvl,
                  ret |-> FALSE, path |-> "absent", visited |-> <<>>]

delete(h, lvl, ml, key) ==
    LET f == FindUpdate(h, Header, lvl, key, NewUpdate(ml))
    IN  IF f.raised # NoFault \/ ~HasFwd(h, f.current, 0)
        THEN [raised |-> IndexError, heap |-> h, level |-> lvl,
              ret |-> FALSE, path |-> "raise", visited |-> <<>>]
        ELSE
        LET current == Fwd(h, f.current, 0)
        IN  IF current # Null /\ h[current].key = key
            THEN LET u == Unlink(h, f.update, current, 0, lvl)
                 IN  IF u.raised # NoFault
                     THEN [raised |-> u.raised, heap |-> u.heap,
                           level |-> lvl, ret |-> FALSE, path |-> "raise",
                           visited |-> u.visited]
                     ELSE [raised |-> NoFault, heap |-> u.heap,
                           level |-> Shrink(u.heap, lvl), ret |-> TRUE,
                           path |-> IF Shrink(u.heap, lvl) < lvl
                                    THEN "shrink" ELSE "unlink",
                           visited |-> u.visited]
            ELSE [raised |-> NoFault, heap |-> h, level |-> lvl,
                  ret |-> FALSE, path |-> "absent", visited |-> <<>>]

(* --------------------------- to_list and size -------------------------- *)
\* while current is not None: result.append((current.key, current.value))
RECURSIVE Walk(_, _)
Walk(h, current) ==
    IF current = Null THEN <<>>
    ELSE <<<<h[current].key, h[current].value>>>> \o Walk(h, Fwd(h, current, 0))

to_list(h) ==
    IF ~HasFwd(h, Header, 0) THEN [raised |-> IndexError, ret |-> <<>>]
    ELSE [raised |-> NoFault, ret |-> Walk(h, Fwd(h, Header, 0))]

\* Count that counts the last node twice
RECURSIVE Count_twice(_, _)
Count_twice(h, current) ==
    IF current = Null THEN 0
    ELSE IF Fwd(h, current, 0) = Null THEN 2
    ELSE 1 + Count_twice(h, Fwd(h, current, 0))

\* while current is not None: count += 1
RECURSIVE Count(_, _)
Count(h, current) ==
    IF current = Null THEN 0 ELSE 1 + Count(h, Fwd(h, current, 0))

size(h) ==
    IF ~HasFwd(h, Header, 0) THEN [raised |-> IndexError, ret |-> 0]
    ELSE [raised |-> NoFault, ret |-> Count(h, Fwd(h, Header, 0))]

(* ------------------------- the reference map --------------------------- *)
\* a plain map run side by side with the list: put-or-overwrite and remove
Put(m, key, value) ==
    [k \in DOMAIN m \cup {key} |-> IF k = key THEN value ELSE m[k]]

Remove(m, key) == [k \in DOMAIN m \ {key} |-> m[k]]

EmptyMap == [k \in {} |-> None]

(* --------------------------- EmployeeDatabase -------------------------- *)
\* a SkipList object held in a field: its nodes and its level (max_level
\* and probability are the defaults)
SkipListObj(h, lvl) == [heap |-> h, level |-> lvl]

\* SkipList(): max_level = 16, probability = 0.5, level = 0, bare header
NewSkipList ==
    SkipListObj([n \in {Header} |-> SkipListNode(NegInf, None, DefaultMaxLevel)],
                0)

\* the draws that make random_level() return n: n successes, then failures
DrawsFor(n) ==
    [i \in 1..DrawCount(DefaultMaxLevel) |-> IF i <= n THEN 25 ELSE 75]

\* the employee_data dict of add_employee
EmployeeData(name, department, salary) ==
    [name |-> name, department |-> department, salary |-> salary]

\* EmployeeDatabase(): two empty lists.  dicts holds the employee_data
\* objects, which the employees list refers to and update_salary mutates in
\* place; the dict made for emp_id is identified by emp_id, the one made by
\* an earlier add of the same emp_id being unreferenced by then.
EmployeeDatabase ==
    [employees |-> NewSkipList, salary_index |-> NewSkipList,
     dicts |-> EmptyMap]

\* the list after x.insert(key, value)
ListInsert(x, key, value, draws) ==
    LET r == insert(x.heap, x.level, DefaultMaxLevel, DefaultProbability,
                    key, value, draws)
    IN  SkipListObj(Collect(r.heap), r.level)

\* the list after x.delete(key), and what the call returned
ListDelete(x, key) ==
    LET r == delete(x.heap, x.level, DefaultMaxLevel, key)
    IN  [list |-> SkipListObj(Collect(r.heap), r.level), ret |-> r.ret]

\* self.employees.insert(emp_id, employee_data);
\* self.salary_index.insert(salary, emp_id)
add_employee(d, emp_id, name, department, salary, draws1, draws2) ==
    [db |-> [employees |-> ListInsert(d.employees, emp_id, emp_id, draws1),
             salary_index |-> ListInsert(d.salary_index, salary, emp_id, draws2),
             dicts |-> Put(d.dicts, emp_id,
                           EmployeeData(name, department, salary))],
     ret |-> None]

\* return self.employees.search(emp_id)
get_employee(d, emp_id) ==
    [db |-> d, ret |-> search(d.employees.heap, d.employees.level, emp_id).ret]

\* employee = search(emp_id); if employee: employee['salary'] = new_salary;
\* salary_index.delete(old_salary); salary_index.insert(new_salary, emp_id)
update_salary(d, emp_id, new_salary, draws) ==
    LET employee == search(d.employees.heap, d.employees.level, emp_id).ret
    IN  IF employee # None
        THEN LET old_salary == d.dicts[employee].salary
                 deleted == ListDelete(d.salary_index, old_salary).list
             IN  [db |-> [employees |-> d.employees,
                          salary_index |-> ListInsert(deleted, new_salary,
                                                      emp_id, draws),
                          dicts |-> [d.dicts EXCEPT
                                        ![employee].salary = new_salary]],
                  ret |-> TRUE]
        ELSE [db |-> d, ret |-> FALSE]

\* employee = search(emp_id); if employee:
\* salary_index.delete(employee['salary']); return employees.delete(emp_id)
remove_employee(d, emp_id) ==
    LET employee == search(d.employees.heap, d.employees.level, emp_id).ret
    IN  IF employee # None
        THEN LET removed == ListDelete(d.employees, emp_id)
             IN  [db |-> [employees |-> removed.list,
                          salary_index |->
                              ListDelete(d.salary_index,
                                         d.dicts[employee].salary).list,
                          dicts |-> IF removed.ret
                                    THEN Remove(d.dicts, employee)
                                    ELSE d.dicts],
                  ret |-> removed.ret]
        ELSE [db |-> d, ret |-> FALSE]

\* the record of the last EmployeeDatabase call
DBCall(op, emp_id, salary, ret) ==
    [op |-> op, emp_id |-> emp_id, salary |-> salary, ret |-> ret]

(* ------------------------------- the calls ----------------------------- *)
\* each action binds the outcome r of the method body once and assigns the
\* fields, the collected heap and the record of the call from it
\* the record of the last call: its name, arguments, result and code path
\* (insert: "overwrite", "splice", or "grow" when the list level was raised;
\* delete: "absent", "unlink", or "shrink" when the list level was lowered),
\* the level drawn by insert and the levels visited by delete's unlink loop
Call(op, key, value, ret, raised, path, prev, drawn, visited) ==
    [op |-> op, key |-> key, value |-> value, ret |-> ret, raised |-> raised,
     path |-> path, prev |-> prev, drawn |-> drawn, visited |-> visited]

\* SkipList(max_level, probability)
New(ml, p) ==
    /\ max_level = ml
    /\ probability = p
    /\ level = 0
    /\ heap = [n \in {Header} |-> SkipListNode(NegInf, None, ml)]
    /\ ref = EmptyMap
    /\ last = Call("__init__", NoKey, None, None, NoFault, "", None, -1, <<>>)
    /\ db = EmployeeDatabase
    /\ dblast = DBCall("__init__", NoKey, None, None)

Init == \E ml \in ValidMaxLevels, p \in ValidProbabilities : New(ml, p)

InitAnyConfig == \E ml \in AnyMaxLevels, p \in AnyProbabilities : New(ml, p)

Insert(key, value, draws) ==
    \E r \in {insert(heap, level, max_level, probability, key, value, draws)} :
        /\ heap' = Collect(r.heap)
        /\ level' = r.level
        /\ ref' = IF r.raised = NoFault THEN Put(ref, key, value) ELSE ref
        /\ last' = Call("insert", key, value, None, r.raised, r.path,
                        r.prev, r.drawn, <<>>)
        /\ UNCHANGED <<max_level, probability, db, dblast>>

Delete(key) ==
    \E r \in {delete(heap, level, max_level, key)} :
        /\ heap' = Collect(r.heap)
        /\ level' = r.level
        /\ ref' = IF r.raised = NoFault THEN Remove(ref, key) ELSE ref
        /\ last' = Call("delete", key, None, r.ret, r.raised, r.path,
                        None, -1, r.visited)
        /\ UNCHANGED <<max_level, probability, db, dblast>>

Search(key) ==
    \E r \in {search(heap, level, key)} :
        /\ last' = Call("search", key, None, r.ret, r.raised, "", None, -1, <<>>)
        /\ UNCHANGED <<heap, level, max_level, probability, ref, db, dblast>>

ToList ==
    \E r \in {to_list(heap)} :
        /\ last' = Call("to_list", NoKey, None, r.ret, r.raised, "", None, -1, <<>>)
        /\ UNCHANGED <<heap, level, max_level, probability, ref, db, dblast>>

Size ==
    \E r \in {size(heap)} :
        /\ last' = Call("size", NoKey, None, r.ret, r.raised, "", None, -1, <<>>)
        /\ UNCHANGED <<heap, level, max_level, probability, ref, db, dblast>>

Next ==
    \/ \E key \in Keys, value \in Vals, draws \in DrawSeqs(max_level) :
          Insert(key, value, draws)
    \/ \E key \in Keys : Delete(key)
    \/ \E key \in Keys : Search(key)
    \/ ToList
    \/ Size

\* lists built with constructor arguments inside the documented domain
Spec == Init /\ [][Next]_vars

\* lists built with any arguments the constructor accepts
SpecAnyConfig == InitAnyConfig /\ [][Next]_vars

\* a list built with max_level = TallMaxLevel
InitTall == New(TallMaxLevel, DefaultProbability)

\* insert and delete calls on it
NextTall ==
    \/ \E key \in Keys, value \in TallVals, draws \in DrawSeqs(max_level) :
          Insert(key, value, draws)
    \/ \E key \in Keys : Delete(key)

\* tall lists: the unlink loop of delete can stop below the list's top level
SpecTall == InitTall /\ [][NextTall]_vars

(* ----------------------- the EmployeeDatabase calls -------------------- *)
listvars == <<heap, level, max_level, probability, ref, last>>

AddEmployee(emp_id, name, department, salary, l1, l2) ==
    \E r \in {add_employee(db, emp_id, name, department, salary,
                            DrawsFor(l1), DrawsFor(l2))} :
        /\ db' = r.db
        /\ dblast' = DBCall("add_employee", emp_id, salary, r.ret)
        /\ UNCHANGED listvars

GetEmployee(emp_id) ==
    \E r \in {get_employee(db, emp_id)} :
        /\ db' = r.db
        /\ dblast' = DBCall("get_employee", emp_id, None, r.ret)
        /\ UNCHANGED listvars

UpdateSalary(emp_id, new_salary, l) ==
    \E r \in {update_salary(db, emp_id, new_salary, DrawsFor(l))} :
        /\ db' = r.db
        /\ dblast' = DBCall("update_salary", emp_id, new_salary, r.ret)
        /\ UNCHANGED listvars

RemoveEmployee(emp_id) ==
    \E r \in {remove_employee(db, emp_id)} :
        /\ db' = r.db
        /\ dblast' = DBCall("remove_employee", emp_id, None, r.ret)
        /\ UNCHANGED listvars

NextDB ==
    \/ \E emp_id \in EmpIds, name \in Names, department \in Departments,
          salary \in Salaries, l1 \in IndexLevels, l2 \in IndexLevels :
          AddEmployee(emp_id, name, department, salary, l1, l2)
    \/ \E emp_id \in EmpIds : GetEmployee(emp_id)
    \/ \E emp_id \in EmpIds, new_salary \in Salaries, l \in IndexLevels :
          UpdateSalary(emp_id, new_salary, l)
    \/ \E emp_id \in EmpIds : RemoveEmployee(emp_id)

\* an EmployeeDatabase and the calls made on it
SpecDB == Init /\ [][NextDB]_vars

(* ------------------------- what the list holds ------------------------- *)
\* the (key, value) pairs along the level-0 chain
Contents == to_list(heap).ret

KeysOf(l) == {l[i][1] : i \in 1..Len(l)}

\* key k is stored in the list with heap h
Stored(h, k) == k \in KeysOf(to_list(h).ret)

\* the pairs of map m listed in ascending key order
RECURSIVE SortedPairs(_)
SortedPairs(m) ==
    IF DOMAIN m = {} THEN <<>>
    ELSE LET k == CHOOSE x \in DOMAIN m : \A y \in DOMAIN m : x <= y
         IN  <<<<k, m[k]>>>> \o SortedPairs(Remove(m, k))

StrictlyIncreasing(l) == \A i \in 1..(Len(l) - 1) : l[i][1] < l[i + 1][1]

Returned(ret) == [raised |-> NoFault, ret |-> ret]

\* this step is the call insert(k, v): Insert(k, v, _) is the one action
\* that records an insert call
InsertStep(k, v) == last'.op = "insert" /\ last'.key = k /\ last'.value = v

\* this step is the call delete(k): Delete(k) is the one action that records
\* a delete call
DeleteStep(k) == last'.op = "delete" /\ last'.key = k

(* -------------------------------- claims ------------------------------- *)
\* C1: after any sequence of insert and delete calls, whatever levels are
\* drawn, the keys of to_list() are strictly increasing (no key twice).
C1_OrderInvariant ==
    /\ to_list(heap).raised = NoFault
    /\ StrictlyIncreasing(Contents)
    /\ last.op = "to_list" => StrictlyIncreasing(last.ret)

\* to_list() has returned a list of at least two pairs
C1_Witness == last.op = "to_list" /\ last.raised = NoFault /\ Len(last.ret) >= 2

\* C2: to_list() equals the pairs of the reference map (insert = put or
\* overwrite, delete = remove) in ascending key order.
C2_RefinesMap ==
    /\ Contents = SortedPairs(ref)
    /\ last.op = "to_list" => last.ret = SortedPairs(ref)

\* an insert has overwritten a value while another key is stored as well
C2_Witness ==
    /\ last.op = "insert" /\ last.raised = NoFault /\ last.path = "overwrite"
    /\ Cardinality(DOMAIN ref) >= 2
    /\ Contents = SortedPairs(ref)

\* C3: search(k) returns the value inserted with k, for every key inserted
\* (in particular after inserting each key of a set once, in any order).
C3_RoundTrip ==
    /\ \A k \in DOMAIN ref : search(heap, level, k) = Returned(ref[k])
    /\ (last.op = "search" /\ last.key \in DOMAIN ref)
          => (last.raised = NoFault /\ last.ret = ref[last.key])

\* every key has been inserted and a search has returned the value of one
C3_Witness ==
    /\ DOMAIN ref = Keys
    /\ last.op = "search" /\ last.raised = NoFault
    /\ last.ret = ref[last.key]
    /\ \E k \in Keys : ref[k] # ref[last.key]

\* C4: insert(k, v2) when k is already stored leaves size() unchanged, and
\* a search(k) after it returns v2.
C4_UpdateInPlace ==
    [][\A k \in Keys, v \in Vals :
          (InsertStep(k, v) /\ Stored(heap, k))
             => /\ last'.raised = NoFault
                /\ size(heap') = size(heap)
                /\ search(heap', level', k) = Returned(v)]_vars

\* an insert has replaced the value of a stored key by a different value
C4_Witness ==
    /\ last.op = "insert" /\ last.raised = NoFault
    /\ last.path = "overwrite"
    /\ last.prev # last.value
    /\ Len(Contents) >= 2

\* C5: delete(k) of a stored key returns True, after which search(k)
\* reports not-found and size() is one less than before.
C5_DeleteStored ==
    [][\A k \in Keys :
          (DeleteStep(k) /\ Stored(heap, k))
             => /\ last'.raised = NoFault
                /\ last'.ret = TRUE
                /\ search(heap', level', k) = Returned(None)
                /\ size(heap') = Returned(size(heap).ret - 1)]_vars

\* a delete has returned True and other keys are still stored
C5_Witness ==
    /\ last.op = "delete" /\ last.raised = NoFault /\ last.ret = TRUE
    /\ ~Stored(heap, last.key)
    /\ Len(Contents) >= 1

\* C6: delete(k) of a key that is not stored returns False and leaves the
\* level, every forward link and every value unchanged.
C6_DeleteAbsent ==
    [][\A k \in Keys :
          (DeleteStep(k) /\ ~Stored(heap, k))
             => /\ last'.raised = NoFault
                /\ last'.ret = FALSE
                /\ heap' = heap
                /\ level' = level]_vars

\* a delete has returned False for a key between two stored keys, on a
\* list whose level is above 0
C6_Witness ==
    /\ last.op = "delete" /\ last.raised = NoFault /\ last.ret = FALSE
    /\ \E a, b \in KeysOf(Contents) : a < last.key /\ last.key < b
    /\ level >= 1

\* C7: search(k) of a key that is not stored returns None and does not
\* raise, in the empty list and for k below, between or above the keys.
C7_SearchAbsent ==
    /\ \A k \in Keys : ~Stored(heap, k) => search(heap, level, k) = Returned(None)
    /\ (last.op = "search" /\ ~Stored(heap, last.key))
          => (last.raised = NoFault /\ last.ret = None)

\* a search has missed a key between two stored keys, the lower of them
\* linked at level 1
C7_Witness ==
    /\ last.op = "search" /\ last.raised = NoFault /\ last.ret = None
    /\ \E a, b \in KeysOf(Contents) : a < last.key /\ last.key < b
    /\ level >= 1
    /\ Fwd(heap, Header, level) # Null
    /\ heap[Fwd(heap, Header, level)].key < last.key

\* the constructor arguments are outside the documented domain
BadConfig == max_level < 0 \/ probability <= 0 \/ probability >= 100

\* C8: a list with max_level < 0 or probability outside (0,1) is rejected
\* by the constructor: no such list is ever returned.
C8_RejectedAtConstruction ==
    BadConfig => (last.op = "__init__" /\ last.raised # NoFault)

\* the misconfiguration shows up in a later call instead
C8_RaisedLater == last.op # "__init__" /\ last.raised # NoFault /\ BadConfig

\* C9: header.forward[i] is None for every i above level, and no node has
\* a forward link above level.
C9_NothingAboveLevel ==
    /\ \A i \in DOMAIN heap[Header].forward :
          i > level => Fwd(heap, Header, i) = Null
    /\ \A n \in DOMAIN heap \ {Header} :
          \A i \in DOMAIN heap[n].forward : i <= level

\* a delete has removed the only node of the top level, which lowered the
\* level of a list that still holds nodes
C9_Witness ==
    /\ last.op = "delete" /\ last.path = "shrink"
    /\ Contents # <<>>
    /\ level < max_level
    /\ Fwd(heap, Header, max_level) = Null

\* the highest level at which the header has a successor (0 if none)
TopLevel(h) ==
    LET S == {i \in DOMAIN h[Header].forward : Fwd(h, Header, i) # Null}
    IN  IF S = {} THEN 0 ELSE CHOOSE i \in S : \A j \in S : j <= i

\* C10: 0 <= level <= max_level, and level is the highest level holding a
\* node: level = 0 or header.forward[level] is not None; 0 when empty.
C10_LevelIsTop ==
    /\ 0 <= level /\ level <= max_level
    /\ level = 0 \/ Fwd(heap, Header, level) # Null
    /\ level = TopLevel(heap)
    /\ Contents = <<>> => level = 0

\* a delete has emptied a list whose level was above 0
C10_Witness ==
    /\ last.op = "delete" /\ last.path = "shrink"
    /\ Contents = <<>>
    /\ level = 0

(* ------------------------------ the chains ----------------------------- *)
\* the nodes met by following forward[i] from node n on, n included; the
\* walk gives up with the marker Raised after fuel nodes (a cycle) or at a
\* node without a forward[i]
RECURSIVE ChainFrom(_, _, _, _)
ChainFrom(h, n, i, fuel) ==
    IF n = Null THEN <<>>
    ELSE IF fuel = 0 \/ ~HasFwd(h, n, i) THEN <<Raised>>
    ELSE <<n>> \o ChainFrom(h, Fwd(h, n, i), i, fuel - 1)

\* the level-i chain: the nodes reached from the header by forward[i] links
Chain(h, i) ==
    IF ~HasFwd(h, Header, i) THEN <<Raised>>
    ELSE ChainFrom(h, Fwd(h, Header, i), i, Cardinality(DOMAIN h))

Range(q) == {q[j] : j \in 1..Len(q)}

\* the chain ends in None after finitely many nodes
Terminated(q) == Raised \notin Range(q)

\* the keys along a chain
KeyChain(h, i) ==
    LET q == Chain(h, i) IN [j \in 1..Len(q) |-> h[q[j]].key]

Increasing(q) == \A j \in 1..(Len(q) - 1) : q[j] < q[j + 1]

\* the elements of q that are in S, in the order of q
RECURSIVE Filter(_, _)
Filter(q, S) ==
    IF q = <<>> THEN <<>>
    ELSE IF Head(q) \in S THEN <<Head(q)>> \o Filter(Tail(q), S)
         ELSE Filter(Tail(q), S)

\* C11: for every level i in 0..level the nodes reached from the header by
\* forward[i] links form a finite, None-terminated chain of strictly
\* increasing keys.
C11_ChainsIncreasing ==
    \A i \in 0..level :
        /\ Terminated(Chain(heap, i))
        /\ Increasing(KeyChain(heap, i))

\* the level-1 chain holds two nodes and the level-0 chain one more
C11_Witness ==
    /\ level >= 1
    /\ Len(Chain(heap, 1)) >= 2
    /\ Len(Chain(heap, 0)) > Len(Chain(heap, 1))
    /\ last.op \in {"insert", "delete"}

\* C12: the level-i chain is a subsequence of the level-(i-1) chain, and a
\* node with a forward list of length n is in the chains of levels 0..n-1.
C12_ContiguousPrefix ==
    /\ \A i \in 1..max_level :
          /\ Terminated(Chain(heap, i)) /\ Terminated(Chain(heap, i - 1))
          /\ Chain(heap, i) = Filter(Chain(heap, i - 1), Range(Chain(heap, i)))
    /\ \A n \in DOMAIN heap \ {Header} :
          \A i \in DOMAIN heap[n].forward : n \in Range(Chain(heap, i))

\* a node of level 1 stands between two nodes of level 0
C12_Witness ==
    /\ Len(Chain(heap, 0)) >= 3
    /\ Len(Chain(heap, 1)) = 1
    /\ Chain(heap, 0)[2] = Chain(heap, 1)[1]
    /\ last.op \in {"insert", "delete"}

\* the node on the level-0 chain that holds key k
NodeWithKey(h, k) == CHOOSE n \in Range(Chain(h, 0)) : h[n].key = k

\* the forward references held by the objects of heap h
Referenced(h) ==
    UNION {{h[n].forward[i] : i \in DOMAIN h[n].forward} : n \in DOMAIN h}

\* C13: after delete(k) has returned True no forward link of the header or
\* of a remaining node, at any level, points to the removed node.
C13_FullyUnlinked ==
    [][\A k \in Keys :
          (DeleteStep(k) /\ Stored(heap, k))
             => /\ last'.ret = TRUE
                /\ NodeWithKey(heap, k) \notin Referenced(heap')
                /\ NodeWithKey(heap, k) \notin DOMAIN heap']_vars

\* a delete has removed a node of level 0 from a list of level 1: the loop
\* redirected level 0 and found another node at level 1
C13_Witness ==
    /\ last.op = "delete" /\ last.raised = NoFault /\ last.ret = TRUE
    /\ last.visited = <<<<0, TRUE>>, <<1, FALSE>>>>
    /\ level = 1

\* the levels in the order the unlink loop visited them
VisitedLevels(v) == [j \in 1..Len(v) |-> v[j][1]]

\* the height of a node: the length of its forward list
Height(h, n) == Cardinality(DOMAIN h[n].forward)

\* C14 as stated: the unlink loop visits current_level, current_level - 1,
\* ... and stops at the first level whose link is not the target.
C14_VisitsDescending ==
    [][\A k \in Keys :
          (DeleteStep(k) /\ Stored(heap, k))
             => /\ last'.visited # <<>>
                /\ VisitedLevels(last'.visited)[1] = level
                /\ \A j \in 1..(Len(last'.visited) - 1) :
                      VisitedLevels(last'.visited)[j + 1]
                         = VisitedLevels(last'.visited)[j] - 1]_vars

\* C14 amended: the unlink loop visits 0, 1, ... in ascending order up to
\* current_level and stops at the first level whose link is not the target,
\* visiting no higher level; at each visited level whose link is the target
\* it redirects update[i].forward[i] to target.forward[i].
C14_VisitsAscending ==
    [][\A k \in Keys :
          (DeleteStep(k) /\ Stored(heap, k))
             => LET t == NodeWithKey(heap, k)
                    n == Height(heap, t)
                    m == IF n > level THEN level + 1 ELSE n + 1
                    u == FindUpdate(heap, Header, level, k,
                                    NewUpdate(max_level)).update
                IN  /\ last'.raised = NoFault
                    /\ last'.visited = [j \in 1..m |-> <<j - 1, j - 1 < n>>]
                    /\ \A i \in 0..(n - 1) :
                          /\ Fwd(heap, u[i], i) = t
                          /\ Fwd(heap', u[i], i) = Fwd(heap, t, i)]_vars

\* a delete has removed a node of level 0 from a list of level 2 that has
\* nodes on levels 1 and 2: the loop redirected level 0, stopped at level 1
\* and did not visit level 2; the list is still of level 2
C14_Witness ==
    /\ last.op = "delete" /\ last.raised = NoFault /\ last.ret = TRUE
    /\ last.visited = <<<<0, TRUE>>, <<1, FALSE>>>>
    /\ level = 2
    /\ Len(Chain(heap, 1)) >= 1 /\ Len(Chain(heap, 2)) >= 1

\* C15: insert(k, v) of a stored key makes no structural change: level and
\* every forward link are unchanged, no level is drawn, the other values
\* are unchanged and the value of k's node becomes v.
C15_OverwriteFrame ==
    [][\A k \in Keys, v \in Vals :
          (InsertStep(k, v) /\ Stored(heap, k))
             => /\ last'.raised = NoFault
                /\ last'.drawn = -1
                /\ level' = level
                /\ heap' = [heap EXCEPT ![NodeWithKey(heap, k)].value = v]]_vars

\* an insert has overwritten the value of a node of level 1 that has a
\* predecessor and a successor
C15_Witness ==
    /\ last.op = "insert" /\ last.raised = NoFault /\ last.path = "overwrite"
    /\ Len(Chain(heap, 0)) >= 3
    /\ Chain(heap, 0)[2] = NodeWithKey(heap, last.key)
    /\ Height(heap, NodeWithKey(heap, last.key)) = 2

\* the sorted sequence q with key k put at its place
InsertKey(q, k) ==
    Filter(q, {x \in Range(q) : x < k}) \o <<k>>
       \o Filter(q, {x \in Range(q) : x > k})

\* the node before node t on the level-i chain, the header if t is first
Pred(h, i, t) ==
    LET q == Chain(h, i)
        j == CHOOSE x \in 1..Len(q) : q[x] = t
    IN  IF j = 1 THEN Header ELSE q[j - 1]

Max(a, b) == IF a > b THEN a ELSE b

\* C16: insert(k, v) of a key that is not stored, with drawn level L, links
\* the new node into the chains of exactly levels 0..L at its sorted place,
\* its predecessor's old successor becoming its successor; the chains above
\* L are unchanged; level becomes max(old level, L), and the header is the
\* predecessor at every level in (old level, L].
C16_SpliceNewNode ==
    [][\A k \in Keys, v \in Vals :
          (InsertStep(k, v) /\ ~Stored(heap, k))
             => /\ last'.raised = NoFault
                /\ last'.drawn \in 0..max_level
                /\ Stored(heap', k)
                /\ LET L == last'.drawn
                       t == NodeWithKey(heap', k)
                   IN  /\ heap'[t].value = v
                       /\ DOMAIN heap'[t].forward = 0..L
                       /\ \A i \in 0..L :
                             /\ KeyChain(heap', i) = InsertKey(KeyChain(heap, i), k)
                             /\ Fwd(heap', t, i) = Fwd(heap, Pred(heap', i, t), i)
                       /\ \A i \in (L + 1)..max_level :
                             Chain(heap', i) = Chain(heap, i)
                       /\ level' = Max(level, L)
                       /\ \A i \in (level + 1)..L :
                             Pred(heap', i, t) = Header]_vars

\* an insert has put a new node of level 1 behind a node of level 0 and
\* raised the list's level from 0 to 1
C16_Witness ==
    /\ last.op = "insert" /\ last.raised = NoFault /\ last.path = "grow"
    /\ last.drawn = 1
    /\ level = 1
    /\ Len(Chain(heap, 0)) >= 2
    /\ Chain(heap, 0)[1] # NodeWithKey(heap, last.key)
    /\ Chain(heap, 1) = <<NodeWithKey(heap, last.key)>>

\* the links of the list: <<k, i, v, n>> when the node of key k, which has
\* value v and a forward list of length n, is on the level-i chain
Links(h) ==
    UNION {{<<h[n].key, i, h[n].value, Height(h, n)>> : n \in Range(Chain(h, i))} :
              i \in DOMAIN h[Header].forward}

\* the elements of S whose key is not c
Others(S, c) == {p \in S : p[1] # c}

\* this step is a call of insert or delete
MutatingStep == last'.op \in {"insert", "delete"}

\* C17: for an insert or delete call on key c every other stored key stays
\* linked at exactly the same levels, keeps its forward list length and
\* keeps its value.
C17_OtherNodesKept ==
    [][MutatingStep
          => Others(Links(heap'), last'.key) = Others(Links(heap), last'.key)]_vars

\* a delete has removed the middle one of three nodes; a node of level 1
\* and a node of level 0 remain
C17_Witness ==
    /\ last.op = "delete" /\ last.raised = NoFault /\ last.ret = TRUE
    /\ Len(Chain(heap, 0)) = 2 /\ Len(Chain(heap, 1)) = 1
    /\ heap[Chain(heap, 0)[1]].key < last.key
    /\ last.key < heap[Chain(heap, 0)[2]].key

\* every outcome of max_level + 1 calls of random.random()
AllDraws(ml) == [1..DrawCount(ml) -> RandomDraws]

\* C18: for max_level >= 0 and any draws random_level returns a level in
\* 0..max_level after at most max_level increments, so no node has a link
\* above the header's top level.
C18_RandomLevelInRange ==
    max_level >= 0 =>
       /\ \A d \in AllDraws(max_level) :
             random_level(probability, max_level, d) \in 0..max_level
       /\ (last.op = "insert" /\ last.path \in {"splice", "grow"})
             => last.drawn \in 0..max_level
       /\ \A n \in DOMAIN heap :
             DOMAIN heap[n].forward \subseteq DOMAIN heap[Header].forward

\* with probability 1 every draw promotes: an insert has drawn max_level
C18_Witness ==
    /\ probability = 100
    /\ max_level = MaxLevel
    /\ last.op = "insert" /\ last.raised = NoFault
    /\ last.drawn = max_level

\* this step is a call of search, to_list or size
ReadStep == last'.op \in {"search", "to_list", "size"}

\* C19: search, to_list and size leave level, every forward link and every
\* key and value unchanged, and size() equals the length of to_list().
C19_ReadOnly ==
    /\ [](size(heap) = Returned(Len(Contents)))
    /\ [][(last'.op = "size" => last'.ret = Len(Contents))
          /\ (ReadStep => (heap' = heap /\ level' = level
                           /\ last'.raised = NoFault))]_vars

\* size() has returned the number of pairs of a list of two levels
C19_Witness ==
    /\ last.op = "size" /\ last.raised = NoFault
    /\ last.ret = MaxKey
    /\ level >= 1

\* the (key, value) pairs of the two indexes, and the salary on record for
\* an employee stored in employees
EmployeePairs == to_list(db.employees.heap).ret
SalaryPairs == to_list(db.salary_index.heap).ret
SalaryOf(emp_id) ==
    db.dicts[search(db.employees.heap, db.employees.level, emp_id).ret].salary

\* C20: the two indexes of an EmployeeDatabase agree: the salary of every
\* stored employee is a key of salary_index, and every salary_index entry
\* (salary -> emp_id) names a stored employee with exactly that salary.
C20_IndexesAgree ==
    /\ \A i \in 1..Len(EmployeePairs) :
          db.dicts[EmployeePairs[i][2]].salary \in KeysOf(SalaryPairs)
    /\ \A i \in 1..Len(SalaryPairs) :
          /\ SalaryPairs[i][2] \in KeysOf(EmployeePairs)
          /\ SalaryOf(SalaryPairs[i][2]) = SalaryPairs[i][1]

\* two employees were added with one salary: the index keeps the second only
C20_SharedSalary ==
    /\ dblast.op = "add_employee"
    /\ Len(EmployeePairs) = 2
    /\ Len(SalaryPairs) = 1
====
